---- MODULE Spec2Model ----
(***************************************************************************)
(* Career-Adviser-System: the recommendation scorer (/recommend), the      *)
(* roadmap generator (build_roadmap), plan persistence (/save_plan), the   *)
(* resource lookup (/resources), the profile page and the account routes   *)
(* of app.py, and the seeding of seed_db.py, over the tables of models.py. *)
(*                                                                         *)
(* Text values (form fields, skill names, career titles) are sequences of  *)
(* one-character strings, so that lower-casing, stripping, splitting on    *)
(* commas and substring search are computed, not assumed.  A NULL column   *)
(* and the empty string are both the empty sequence: every read of a       *)
(* nullable text column in app.py goes through `x or ''` or a truth test.  *)
(* Scores are kept in tenths (1.0 -> 10, 0.8 -> 8).                        *)
(***************************************************************************)
EXTENDS Integers, Sequences, FiniteSets, TLC

VARIABLES
    careers,        \* Career rows in id order: [title]
    skills,         \* Skill rows in id order: the name column
    career_skills,  \* CareerSkillRequirement rows: [career_id, skill_id]
    users,          \* User rows in id order: [name, interests, skills_text,
                    \* email, password_hash]
    user_skills,    \* UserSkill rows: [user_id, skill_id, name]
    plans,          \* Plan rows in id order: [user_id, career_id]
    plan_steps,     \* PlanStep rows in insertion order: [plan_id, title, sort_order]
    session,        \* session['user_id'] of the browser session, 0 when absent
    rec,            \* locals of the /recommend request being answered, at its return
    sp,             \* the /save_plan request in flight: its position and locals
    rm,             \* a call of build_roadmap: its arguments and its result
    faults,         \* IntegrityErrors the store has raised so far
    resources,      \* Resource rows in id order: [career_id, title, url]
    http,           \* the response of the last request other than the two above
    pf,             \* the /profile, /signup and /register requests in flight,
                    \* by worker
    bk              \* a run of recreate_db.py: its position, the files, its exit

vars == <<careers, skills, career_skills, users, user_skills, plans, plan_steps,
          session, rec, sp, rm, faults, resources, http, pf, bk>>

-----------------------------------------------------------------------------
(* Bounds of the model *)

\* the store raises at most this many IntegrityErrors in one run
MaxFaults == 1
\* at most this many plans are saved in one run
MaxPlans == 1
\* longest required / missing list build_roadmap is called on directly
MaxLen == 2

-----------------------------------------------------------------------------
(* Text *)

Range(s) == {s[i] : i \in 1..Len(s)}

UpperToLower ==
    [A |-> "a", B |-> "b", C |-> "c", D |-> "d", E |-> "e", F |-> "f", G |-> "g",
     H |-> "h", I |-> "i", J |-> "j", K |-> "k", L |-> "l", M |-> "m", N |-> "n",
     O |-> "o", P |-> "p", Q |-> "q", R |-> "r", S |-> "s", T |-> "t", U |-> "u",
     V |-> "v", W |-> "w", X |-> "x", Y |-> "y", Z |-> "z"]

\* str.lower()
Lower(s) ==
    [i \in 1..Len(s) |-> IF s[i] \in DOMAIN UpperToLower THEN UpperToLower[s[i]] ELSE s[i]]

RECURSIVE LStrip(_)
LStrip(s) == IF s # <<>> /\ Head(s) = " " THEN LStrip(Tail(s)) ELSE s

RECURSIVE RStrip(_)
RStrip(s) ==
    IF s # <<>> /\ s[Len(s)] = " " THEN RStrip(SubSeq(s, 1, Len(s) - 1)) ELSE s

\* str.strip()
Strip(s) == RStrip(LStrip(s))

\* str.split(','): the pieces between commas, empty pieces included
RECURSIVE SplitComma(_, _)
SplitComma(s, cur) ==
    IF s = <<>> THEN <<cur>>
    ELSE IF Head(s) = "," THEN <<cur>> \o SplitComma(Tail(s), <<>>)
    ELSE SplitComma(Tail(s), Append(cur, Head(s)))

\* a in b, for Python strings
IsSubstr(a, b) ==
    \E i \in 0..(Len(b) - Len(a)) : SubSeq(b, i + 1, i + Len(a)) = a

\* [f(x) for x in s]
MapSeq(s, F(_)) == [i \in 1..Len(s) |-> F(s[i])]

split_csv(value) ==
    LET pieces == SplitComma(value, <<>>)
        NonEmpty(x) == Strip(x) # <<>>
    IN  MapSeq(SelectSeq(pieces, NonEmpty), Strip)

-----------------------------------------------------------------------------
(* The text values the model draws from *)

t_python  == <<"p","y","t","h","o","n">>
t_Python  == <<"P","y","t","h","o","n">>
t_sql     == <<"s","q","l">>
t_SQL     == <<"S","Q","L">>
t_java    == <<"j","a","v","a">>
t_ds      == <<"d","a","t","a","-","s","t","r","u","c","t","u","r","e","s">>
t_algo    == <<"a","l","g","o","r","i","t","h","m","s">>
t_stats   == <<"s","t","a","t","i","s","t","i","c","s">>
t_figma   == <<"f","i","g","m","a">>

t_SoftwareEngineer ==
    <<"S","o","f","t","w","a","r","e"," ","E","n","g","i","n","e","e","r">>
t_DataAnalyst   == <<"D","a","t","a"," ","A","n","a","l","y","s","t">>
t_DataScientist == <<"D","a","t","a"," ","S","c","i","e","n","t","i","s","t">>
t_MLEngineer    == <<"M","L"," ","E","n","g","i","n","e","e","r">>
t_CloudEngineer == <<"C","l","o","u","d"," ","E","n","g","i","n","e","e","r">>
t_Designer      == <<"U","I","/","U","X"," ","D","e","s","i","g","n","e","r">>
t_Tester        == <<"T","e","s","t","e","r">>

t_programming == <<"p","r","o","g","r","a","m","m","i","n","g">>
t_data        == <<"d","a","t","a">>
t_ENGINEER    == <<"E","N","G","I","N","E","E","R">>
t_comma       == <<",", " ">>

t_design      ==
    <<"d","e","s","i","g","n","-","p","r","i","n","c","i","p","l","e","s">>

-----------------------------------------------------------------------------
(* build_roadmap *)

SKILL_RESOURCES ==
    (t_python :> <<"Official Python Tutorial", "Automate the Boring Stuff">>) @@
    (t_sql    :> <<"SQLBolt", "Mode SQL Tutorial">>) @@
    (t_ds     :> <<"NeetCode Roadmap", "CS50 Data Structures">>) @@
    (t_stats  :> <<"Khan Academy Stats", "Think Stats (book)">>) @@
    (t_algo   :> <<"Grokking Algorithms", "CLRS (chapters 1-4)">>) @@
    (t_figma  :> <<"Figma Learn", "Build a UI Kit">>) @@
    (t_design :> <<"Laws of UX", "Refactoring UI">>)

\* SKILL_RESOURCES.get(key, [])
ResourcesGet(key) ==
    IF key \in DOMAIN SKILL_RESOURCES THEN SKILL_RESOURCES[key] ELSE <<>>

\* lst[:2]
FirstTwo(lst) == SubSeq(lst, 1, IF Len(lst) < 2 THEN Len(lst) ELSE 2)

\* " • ".join(lst), as the sequence of its pieces; the empty string is <<>>
RECURSIVE JoinBullet(_)
JoinBullet(lst) ==
    IF lst = <<>> THEN <<>>
    ELSE IF Len(lst) = 1 THEN <<lst[1]>>
    ELSE <<lst[1], " * ">> \o JoinBullet(Tail(lst))

\* a step is [fmt, s, res]: the f-string, the skill and the resource text
\* substituted into it (both <<>> in the fixed steps)
FixedStep(text) == [fmt |-> text, s |-> <<>>, res |-> <<>>]

\* mutant: the table is searched by the name as given, not lower-cased
FoundationStep_CaseSensitive(s) ==
    LET joined == JoinBullet(FirstTwo(ResourcesGet(s)))
        res    == IF joined # <<>> THEN joined ELSE <<"Pick a beginner resource">>
    IN  [fmt |-> "Learn the basics of {s} (2-3 weeks). Suggested: {res}.",
         s |-> s, res |-> res]

FoundationStep(s) ==
    LET joined == JoinBullet(FirstTwo(ResourcesGet(Lower(s))))
        res    == IF joined # <<>> THEN joined ELSE <<"Pick a beginner resource">>
    IN  [fmt |-> "Learn the basics of {s} (2-3 weeks). Suggested: {res}.",
         s |-> s, res |-> res]

CoreStep(s) ==
    [fmt |-> "Do 3-5 medium practice sets for {s}. Summarize notes in a wiki/notion.",
     s |-> s, res |-> <<>>]

\* mutant: the phase is emitted for an empty missing list too
FoundationsPhase_Always(missing_skills) ==
    <<[title |-> "Foundations", steps |-> MapSeq(missing_skills, FoundationStep)]>>

FoundationsPhase(missing_skills) ==
    IF missing_skills # <<>>
    THEN <<[title |-> "Foundations", steps |-> MapSeq(missing_skills, FoundationStep)]>>
    ELSE <<>>

CorePracticePhase(required_skills) ==
    [title |-> "Core Practice", steps |-> MapSeq(required_skills, CoreStep)]

ProjectsPhase ==
    [title |-> "Projects", steps |-> <<
        FixedStep("Build Project 1: pick a small scoped idea (2 weeks)."),
        FixedStep("Build Project 2: increase scope, add 1 new concept (APIs, auth, charts, etc.)."),
        FixedStep("Write concise READMEs with screenshots; push everything to GitHub.")>>]

PortfolioPhase ==
    [title |-> "Portfolio", steps |-> <<
        FixedStep("Create a clean portfolio page (about, skills, 2 projects, contact)."),
        FixedStep("Polish LinkedIn: headline, summary, skills, project links."),
        FixedStep("Prepare a 5-minute project walkthrough (story -> demo -> learning).")>>]

ApplyPhase ==
    [title |-> "Apply & Iterate", steps |-> <<
        FixedStep("Set a weekly target: 5 tailored applications + 1 coffee chat."),
        FixedStep("Mock interviews weekly; log weak areas and revisit notes."),
        FixedStep("Iterate projects based on feedback; ship small improvements weekly.")>>]

\* mutant: Portfolio is appended before Projects
build_roadmap_Swapped(career_title, required_skills, missing_skills) ==
    FoundationsPhase(missing_skills) \o
    <<CorePracticePhase(required_skills), PortfolioPhase, ProjectsPhase, ApplyPhase>>

build_roadmap(career_title, required_skills, missing_skills) ==
    FoundationsPhase(missing_skills) \o
    <<CorePracticePhase(required_skills), ProjectsPhase, PortfolioPhase, ApplyPhase>>

-----------------------------------------------------------------------------
(* /recommend/<user_id> *)

\* a CareerSkillRequirement row and a Career row
Req(c, s) == [career_id |-> c, skill_id |-> s]
Career(t) == [title |-> t]

\* Career.query.limit(5)
FallbackLimit == 5

\* user.skills: the user's UserSkill rows
UserSkillRows(u) == SelectSeq(user_skills, LAMBDA r : r.user_id = u)

\* the lower-cased skill set of the user: the UserSkill names, else skills_text
UserSkillSet(u) ==
    LET rows   == UserSkillRows(u)
        named  == {Lower(rows[i].name) : i \in {j \in 1..Len(rows) : rows[j].name # <<>>}}
        parsed == split_csv(users[u].skills_text)
    IN  IF named = {} /\ users[u].skills_text # <<>>
        THEN {Lower(parsed[i]) : i \in 1..Len(parsed)}
        ELSE named

\* career.requirements, and req.skill
Requirements(c) == SelectSeq(career_skills, LAMBDA r : r.career_id = c)
HasSkill(req) == req.skill_id \in DOMAIN skills

\* [req.skill.name.lower() for req in career.requirements if req.skill and req.skill.name]
ReqsLower(c) ==
    MapSeq(SelectSeq(Requirements(c),
                     LAMBDA r : HasSkill(r) /\ skills[r.skill_id] # <<>>),
           LAMBDA r : Lower(skills[r.skill_id]))

\* [req.skill.name for req in c.requirements if req.skill]
ReqsRaw(c) ==
    MapSeq(SelectSeq(Requirements(c), HasSkill), LAMBDA r : skills[r.skill_id])

\* the loop over interest_lower: 1.0 for each entry found in the lower-cased title
RECURSIVE InterestScore(_, _)
InterestScore(interest_lower, title) ==
    IF interest_lower = <<>> THEN 0
    ELSE (IF IsSubstr(Head(interest_lower), Lower(title)) THEN 10 ELSE 0)
         + InterestScore(Tail(interest_lower), title)

\* len(set(reqs) & user_skills)
Overlap(reqs, us) == Cardinality(Range(reqs) \cap us)

\* mutant: a skill match weighs as much as an interest match
Score_EqualWeights(interest_lower, title, overlap) ==
    InterestScore(interest_lower, title) + overlap * 10

Score(interest_lower, title, overlap) ==
    InterestScore(interest_lower, title) + overlap * 8

\* mutant: the membership test dropped, every career is a candidate
IsCandidate_Always(score, overlap) == TRUE

IsCandidate(score, overlap) == score > 0 \/ overlap > 0

\* the loop over Career.query.all(), careers i..Len(careers)
RECURSIVE Candidates(_, _, _)
Candidates(i, interest_lower, us) ==
    IF i > Len(careers) THEN <<>>
    ELSE LET reqs    == ReqsLower(i)
             overlap == Overlap(reqs, us)
             score   == Score(interest_lower, careers[i].title, overlap)
         IN  (IF IsCandidate(score, overlap)
              THEN <<[career |-> i, reqs |-> reqs, score |-> score]>>
              ELSE <<>>)
             \o Candidates(i + 1, interest_lower, us)

\* mutant: the limit dropped, the fallback is the whole catalog
Fallback_Unlimited ==
    [i \in 1..Len(careers) |-> [career |-> i, reqs |-> ReqsRaw(i), score |-> 0]]

\* the top careers taken when no career is a candidate
Fallback ==
    [i \in 1..(IF Len(careers) < FallbackLimit THEN Len(careers) ELSE FallbackLimit) |->
        [career |-> i, reqs |-> ReqsRaw(i), score |-> 0]]

\* list.sort(key=score, reverse=True): stable, highest score first
\* mutant: an unstable sort, equal scores come out in reverse order
RECURSIVE InsertByScore_Unstable(_, _)
InsertByScore_Unstable(sorted, x) ==
    IF sorted = <<>> THEN <<x>>
    ELSE IF Head(sorted).score > x.score
         THEN <<Head(sorted)>> \o InsertByScore_Unstable(Tail(sorted), x)
         ELSE <<x>> \o sorted

RECURSIVE InsertByScore(_, _)
InsertByScore(sorted, x) ==
    IF sorted = <<>> THEN <<x>>
    ELSE IF Head(sorted).score >= x.score
         THEN <<Head(sorted)>> \o InsertByScore(Tail(sorted), x)
         ELSE <<x>> \o sorted

RECURSIVE SortByScore(_)
SortByScore(cands) ==
    IF cands = <<>> THEN <<>>
    ELSE InsertByScore(SortByScore(SubSeq(cands, 1, Len(cands) - 1)), cands[Len(cands)])

\* mutant: the test inverted, the skills the user has are kept
Missing_Inverted(required_skills, us) ==
    SelectSeq(required_skills, LAMBDA r : Lower(r) \in us)

\* [r for r in required_skills if r.lower() not in user_skills]
Missing(required_skills, us) ==
    SelectSeq(required_skills, LAMBDA r : Lower(r) \notin us)

\* the locals of recommend() at its return
recommend(u) ==
    LET us             == UserSkillSet(u)
        interest_lower == MapSeq(split_csv(users[u].interests), Lower)
        found          == Candidates(1, interest_lower, us)
        candidates     == SortByScore(IF found = <<>> THEN Fallback ELSE found)
        titles         == {careers[candidates[i].career].title : i \in 1..Len(candidates)}
        \* gaps[career.title] = missing: a later candidate of the same title overwrites
        last(t)        == CHOOSE i \in 1..Len(candidates) :
                            /\ careers[candidates[i].career].title = t
                            /\ \A j \in (i + 1)..Len(candidates) :
                                   careers[candidates[j].career].title # t
    IN  [status         |-> 200,
         user_id        |-> u,
         user           |-> users[u],
         user_rows      |-> UserSkillRows(u),
         user_skills    |-> us,
         interest_lower |-> interest_lower,
         catalog        |-> careers,
         requirements   |-> [c \in 1..Len(careers) |-> ReqsRaw(c)],
         fallback       |-> (found = <<>>),
         candidates     |-> candidates,
         recs           |-> [i \in 1..Len(candidates) |->
                               [career |-> careers[candidates[i].career].title,
                                skills |-> candidates[i].reqs]],
         gaps           |-> [t \in titles |-> Missing(candidates[last(t)].reqs, us)],
         roadmaps       |-> [t \in titles |->
                               build_roadmap(t, candidates[last(t)].reqs,
                                             Missing(candidates[last(t)].reqs, us))]]

\* a user as /signup leaves it: name set, interests and skills_text NULL
NewUser(name) ==
    [name |-> name, interests |-> <<>>, skills_text |-> <<>>,
     email |-> <<>>, password_hash |-> <<>>]

NoRecommend ==
    [status |-> 0, user_id |-> 0, user |-> NewUser(<<>>), user_rows |-> <<>>,
     user_skills |-> {}, interest_lower |-> <<>>,
     catalog |-> <<>>, requirements |-> <<>>, fallback |-> FALSE, candidates |-> <<>>,
     recs |-> <<>>, gaps |-> <<>>, roadmaps |-> <<>>]

\* GET /recommend/<user_id>
Recommend(u) ==
    /\ rec' = IF u \in DOMAIN users THEN recommend(u)
              ELSE [NoRecommend EXCEPT !.status = 404, !.user_id = u]
    /\ UNCHANGED <<careers, skills, career_skills, users, user_skills, plans,
                   plan_steps, session, resources, http, pf, sp, rm, faults, bk>>

-----------------------------------------------------------------------------
(* POST /profile *)

\* Skill.query.filter_by(name=s.lower()).first(): the id of the row, 0 for None
SkillIdByName(name) ==
    IF \E i \in DOMAIN skills : skills[i] = name
    THEN CHOOSE i \in DOMAIN skills :
             skills[i] = name /\ \A j \in 1..(i - 1) : skills[j] # name
    ELSE 0

\* the UserSkill rows the loop over split_csv(skills) adds; the inserts at the
\* positions in failed raise IntegrityError and are rolled back
RECURSIVE NewUserSkills(_, _, _, _)
NewUserSkills(u, entries, i, failed) ==
    IF i > Len(entries) THEN <<>>
    ELSE (IF i \in failed THEN <<>>
          ELSE <<[user_id |-> u, skill_id |-> SkillIdByName(Lower(entries[i])),
                  name |-> entries[i]]>>)
         \o NewUserSkills(u, entries, i + 1, failed)

\* POST /profile with the form fields name, interests, skills
ProfilePost(name, interests, skills_field) ==
    /\ session # 0
    /\ session \in DOMAIN users
    /\ LET u       == session
           entries == split_csv(Strip(skills_field))
       IN  \E failed \in SUBSET (1..Len(entries)) :
           /\ faults + Cardinality(failed) <= MaxFaults
           /\ IF Strip(name) = <<>>
              THEN \* "Name required", 400
                   /\ failed = {}
                   /\ UNCHANGED <<users, user_skills, faults>>
              ELSE /\ users' = [users EXCEPT ![u].name = Strip(name),
                                             ![u].interests = Strip(interests),
                                             ![u].skills_text = Strip(skills_field)]
                   /\ user_skills' =
                          SelectSeq(user_skills, LAMBDA r : r.user_id # u)
                          \o NewUserSkills(u, entries, 1, failed)
                   /\ faults' = faults + Cardinality(failed)
    /\ rec' = NoRecommend    \* the request served before is over
    /\ UNCHANGED <<careers, skills, career_skills, plans, plan_steps, session,
                   resources, http, pf, sp, rm, bk>>

-----------------------------------------------------------------------------
(* POST /save_plan/<user_id>: one action per commit *)

\* pc is the position of the request: "idle" (none in flight), "plan" (career
\* found or created), "steps" (plan committed, roadmap built), "trailing" (all
\* roadmap steps tried), "done" (response produced).  skipped counts the step
\* inserts of this request that raised IntegrityError.
NoSavePlan ==
    [pc |-> "idle", status |-> 0, user_id |-> 0, career_id |-> 0, plan_id |-> 0,
     form_missing |-> <<>>, missing |-> <<>>, required |-> <<>>, phases |-> <<>>,
     queue |-> <<>>, order |-> 0, skipped |-> 0]

\* Career.query.filter(Career.title == career_title).first(): the id, 0 for None
CareerIdByTitle(title) ==
    IF \E i \in DOMAIN careers : careers[i].title = title
    THEN CHOOSE i \in DOMAIN careers :
             careers[i].title = title /\ \A j \in 1..(i - 1) : careers[j].title # title
    ELSE 0

\* [req.skill.name.lower() for req in career.requirements if req.skill]
ReqsLowerAny(c) ==
    MapSeq(SelectSeq(Requirements(c), HasSkill), LAMBDA r : Lower(skills[r.skill_id]))

\* the two nested loops over phases and ph['steps']: the titles in insert order
RECURSIVE FlattenPhases(_)
FlattenPhases(phases) ==
    IF phases = <<>> THEN <<>>
    ELSE MapSeq(Head(phases).steps,
                LAMBDA step : [phase |-> Head(phases).title, step |-> step])
         \o FlattenPhases(Tail(phases))

\* the title of the extra step added after the loops
TrailingTitle ==
    [phase |-> "", step |-> FixedStep("Build a small project to demonstrate skills")]

\* mutant: the counter is never advanced
OrderAfterInsert_Stuck(order) == order

\* order += 1 after a committed step
OrderAfterInsert(order) == order + 1

\* mutant: the counter advances for a skipped step too
OrderAfterSkip_Advance(order) == order + 1

\* order after a step whose insert raised IntegrityError: left as it was
OrderAfterSkip(order) == order

\* mutant: the plan and its steps are one transaction, undone as a whole
RowsAfterRollback_Whole(rows, plan_id) == SelectSeq(rows, LAMBDA r : r.plan_id # plan_id)

\* db.session.rollback() after a step insert failed: each earlier step was
\* committed on its own and stays
RowsAfterRollback(rows, plan_id) == rows

\* lines 200-214: the user, the career field, the career found or created
SavePlanBegin(u, career_title, form_missing) ==
    /\ sp.pc = "idle"
    /\ Len(plans) < MaxPlans
    /\ \/ \* get_or_404
          /\ u \notin DOMAIN users
          /\ sp' = [NoSavePlan EXCEPT !.pc = "done", !.status = 404]
          /\ UNCHANGED <<careers, faults>>
       \/ \* 'Career required'
          /\ u \in DOMAIN users
          /\ career_title = <<>>
          /\ sp' = [NoSavePlan EXCEPT !.pc = "done", !.status = 400, !.user_id = u]
          /\ UNCHANGED <<careers, faults>>
       \/ \* the career exists
          /\ u \in DOMAIN users
          /\ career_title # <<>>
          /\ CareerIdByTitle(career_title) # 0
          /\ sp' = [NoSavePlan EXCEPT !.pc = "plan", !.user_id = u,
                                      !.career_id = CareerIdByTitle(career_title),
                                      !.form_missing = form_missing]
          /\ UNCHANGED <<careers, faults>>
       \/ \* the career is created and committed
          /\ u \in DOMAIN users
          /\ career_title # <<>>
          /\ CareerIdByTitle(career_title) = 0
          /\ careers' = Append(careers, Career(career_title))
          /\ sp' = [NoSavePlan EXCEPT !.pc = "plan", !.user_id = u,
                                      !.career_id = Len(careers) + 1,
                                      !.form_missing = form_missing]
          /\ UNCHANGED faults
       \/ \* the commit of the new career raises IntegrityError
          /\ u \in DOMAIN users
          /\ career_title # <<>>
          /\ CareerIdByTitle(career_title) = 0
          /\ faults < MaxFaults
          /\ faults' = faults + 1
          /\ sp' = [NoSavePlan EXCEPT !.pc = "done", !.status = 400, !.user_id = u]
          /\ UNCHANGED careers
    /\ UNCHANGED <<skills, career_skills, users, user_skills, plans, plan_steps,
                   session, resources, http, pf, rec, rm, bk>>

\* lines 216-236: the plan committed, the missing list, the roadmap built
SavePlanCreatePlan ==
    /\ sp.pc = "plan"
    /\ \/ \* the form carried a missing list
          /\ sp.form_missing # <<>>
          /\ plans' = Append(plans, [user_id |-> sp.user_id, career_id |-> sp.career_id,
                                     title |-> careers[sp.career_id].title])
          /\ LET required == ReqsLowerAny(sp.career_id)
                 phases   == build_roadmap(careers[sp.career_id].title, required,
                                           sp.form_missing)
             IN  sp' = [sp EXCEPT !.pc = "steps", !.plan_id = Len(plans) + 1,
                                  !.missing = sp.form_missing, !.required = required,
                                  !.phases = phases, !.queue = FlattenPhases(phases),
                                  !.order = 1]
          /\ UNCHANGED faults
       \/ \* no missing list: user.user_skills is read, User has no such attribute
          \* (models.py names the relationship skills), the request ends in a 500
          /\ sp.form_missing = <<>>
          /\ plans' = Append(plans, [user_id |-> sp.user_id, career_id |-> sp.career_id,
                                     title |-> careers[sp.career_id].title])
          /\ sp' = [sp EXCEPT !.pc = "done", !.status = 500, !.plan_id = Len(plans) + 1]
          /\ UNCHANGED faults
       \/ \* the commit of the plan raises IntegrityError
          /\ faults < MaxFaults
          /\ faults' = faults + 1
          /\ sp' = [sp EXCEPT !.pc = "done", !.status = 400]
          /\ UNCHANGED plans
    /\ UNCHANGED <<careers, skills, career_skills, users, user_skills, plan_steps,
                   session, resources, http, pf, rec, rm, bk>>

\* lines 237-244: one pass of the inner loop, one commit
SavePlanStep ==
    /\ sp.pc = "steps"
    /\ sp.queue # <<>>
    /\ \/ \* the step is committed
          /\ plan_steps' = Append(plan_steps,
                                  [plan_id |-> sp.plan_id, title |-> Head(sp.queue),
                                   sort_order |-> sp.order])
          /\ sp' = [sp EXCEPT !.queue = Tail(sp.queue),
                              !.order = OrderAfterInsert(sp.order)]
          /\ UNCHANGED faults
       \/ \* IntegrityError: rolled back, the step is skipped
          /\ faults < MaxFaults
          /\ faults' = faults + 1
          /\ sp' = [sp EXCEPT !.queue = Tail(sp.queue),
                              !.order = OrderAfterSkip(sp.order),
                              !.skipped = sp.skipped + 1]
          /\ plan_steps' = RowsAfterRollback(plan_steps, sp.plan_id)
    /\ UNCHANGED <<careers, skills, career_skills, users, user_skills, plans,
                   session, resources, http, pf, rec, rm, bk>>

\* lines 246-253: the extra project step and the response
SavePlanTrailing ==
    /\ sp.pc = "steps"
    /\ sp.queue = <<>>
    /\ \/ /\ plan_steps' = Append(plan_steps,
                                  [plan_id |-> sp.plan_id, title |-> TrailingTitle,
                                   sort_order |-> sp.order])
          /\ sp' = [sp EXCEPT !.pc = "done", !.status = 200]
          /\ UNCHANGED faults
       \/ /\ faults < MaxFaults
          /\ faults' = faults + 1
          /\ sp' = [sp EXCEPT !.pc = "done", !.status = 200, !.skipped = sp.skipped + 1]
          /\ plan_steps' = RowsAfterRollback(plan_steps, sp.plan_id)
    /\ UNCHANGED <<careers, skills, career_skills, users, user_skills, plans,
                   session, resources, http, pf, rec, rm, bk>>

\* the response is sent, the request is over
SavePlanReturn ==
    /\ sp.pc = "done"
    /\ sp' = NoSavePlan
    /\ UNCHANGED <<careers, skills, career_skills, users, user_skills, plans,
                   plan_steps, session, resources, http, pf, rec, rm, faults, bk>>

-----------------------------------------------------------------------------
(* GET /resources *)

\* Resource.query.limit(20)
ResourcePageLimit == 20

\* a response: kind names the handler, redirect the endpoint redirected to,
\* flash the messages flashed; career and resources are the JSON of /resources,
\* user_id the user a page was rendered for or a redirect points at, body the
\* text of a plain response; query is the value the request was sent with
\* (the career of /resources, the email of a signup that created a user)
NoResponse ==
    [kind |-> "none", status |-> 0, redirect |-> "", flash |-> <<>>,
     career |-> <<>>, has_career |-> FALSE, resources |-> {}, query |-> <<>>,
     user_id |-> 0, body |-> ""]

\* text LIKE pattern, after both are lower-cased: % is any run of characters,
\* _ any one character
RECURSIVE LikeMatch(_, _)
LikeMatch(p, t) ==
    IF p = <<>> THEN t = <<>>
    ELSE IF Head(p) = "%" THEN LikeMatch(Tail(p), t) \/ (t # <<>> /\ LikeMatch(p, Tail(t)))
    ELSE /\ t # <<>>
         /\ (Head(p) = "_" \/ Head(p) = Head(t))
         /\ LikeMatch(Tail(p), Tail(t))

\* Career.title.ilike(f'%{career_query}%')
TitleILike(title, career_query) ==
    LikeMatch(<<"%">> \o Lower(career_query) \o <<"%">>, Lower(title))

\* Career.query.filter(...ilike...).first(): the id, 0 for None
CareerIdILike(career_query) ==
    IF \E i \in DOMAIN careers : TitleILike(careers[i].title, career_query)
    THEN CHOOSE i \in DOMAIN careers :
             /\ TitleILike(careers[i].title, career_query)
             /\ \A j \in 1..(i - 1) : ~TitleILike(careers[j].title, career_query)
    ELSE 0

\* career.resources as the set of (title, url)
CareerResources(c) ==
    {<<resources[i].title, resources[i].url>> :
        i \in {j \in DOMAIN resources : resources[j].career_id = c}}

\* mutant: an unmatched query is answered 404
ResourcesNoMatch_NotFound(career_query) ==
    [NoResponse EXCEPT !.kind = "resources", !.status = 404]

\* the answer for a query that matched no career
ResourcesNoMatch(career_query) ==
    [NoResponse EXCEPT !.kind = "resources", !.status = 200, !.has_career = TRUE,
                       !.career = career_query, !.resources = {}]

\* the default page: the first 20 resources, no 'career' key
ResourcesDefault ==
    [NoResponse EXCEPT !.kind = "resources", !.status = 200,
        !.resources = {<<resources[i].title, resources[i].url>> :
                          i \in {j \in DOMAIN resources : j <= ResourcePageLimit}}]

\* the body of resources() for the raw value of ?career=
resources_view(arg) ==
    LET career_query == Strip(arg)
        career       == CareerIdILike(career_query)
    IN  IF career_query = <<>> THEN ResourcesDefault
        ELSE IF career = 0 THEN ResourcesNoMatch(career_query)
        ELSE IF Requirements(career) # <<>>
             \* req.skill.resources: Skill has no such attribute, a 500
             THEN [NoResponse EXCEPT !.kind = "resources", !.status = 500]
        ELSE [NoResponse EXCEPT !.kind = "resources", !.status = 200,
                                !.has_career = TRUE,
                                !.career = careers[career].title,
                                !.resources = CareerResources(career)]

\* GET /resources?career=<arg>
Resources(arg) ==
    /\ http' = [resources_view(arg) EXCEPT !.query = arg]
    /\ UNCHANGED <<careers, skills, career_skills, users, user_skills, plans,
                   plan_steps, session, resources, pf, rec, sp, rm, faults, bk>>

-----------------------------------------------------------------------------
(* Requests in flight *)

\* the requests served at the same time
Workers == {"w1", "w2"}

\* the User table holds at most this many rows
MaxUsers == 2

\* a request between two of its commits: pc is its position, kind its handler,
\* the other fields are its locals (email_field is the email as the form sent it)
NoRequest ==
    [pc |-> "idle", kind |-> "", user_id |-> 0, entries |-> <<>>,
     name |-> <<>>, email |-> <<>>, password |-> "", email_field |-> <<>>]
NoProfiles == [w \in Workers |-> NoRequest]

\* redirect(url_for(endpoint)) after the flashes
Redirect(kind, endpoint, flashes) ==
    [NoResponse EXCEPT !.kind = kind, !.status = 302, !.redirect = endpoint,
                       !.flash = flashes]

\* mutant: no handler is registered, the error surfaces as the server's own 500
IntegrityResponse_Unhandled(kind) ==
    [NoResponse EXCEPT !.kind = kind, !.status = 500, !.body = "Internal Server Error"]

\* handle_integrity_error, after its rollback
IntegrityResponse(kind) ==
    [NoResponse EXCEPT !.kind = kind, !.status = 500,
        !.body = "Database integrity error (likely a duplicate or missing required field). Please go back and try again."]

-----------------------------------------------------------------------------
(* /signup, /register, /login, /logout *)

\* generate_password_hash(password): the hash is kept as the password it was
\* made from; check_password_hash(hash, password) is true for that password only
generate_password_hash(password) == <<"hash", password>>

\* mutant: every password is accepted
check_password_hash_Any(pwhash, password) == TRUE

check_password_hash(pwhash, password) == pwhash = generate_password_hash(password)

User(name, email, password_hash) ==
    [name |-> name, interests |-> <<>>, skills_text |-> <<>>,
     email |-> email, password_hash |-> password_hash]

\* User.query.filter_by(email=email).first(): the id, 0 for None
UserIdByEmail(email) ==
    IF \E i \in DOMAIN users : users[i].email = email
    THEN CHOOSE i \in DOMAIN users :
             users[i].email = email /\ \A j \in 1..(i - 1) : users[j].email # email
    ELSE 0

\* the requests that have passed their email check and not yet committed
Committing == {w \in Workers : pf[w].pc = "commit"}

\* the emails those requests are about to store
PendingEmails == {pf[v].email : v \in Committing}

\* a request for an email that another request in flight is about to store
\* will be rejected by the store: one of the IntegrityErrors of the run
MayRace(email) ==
    (\E v \in Committing : pf[v].email = email) => faults < MaxFaults

\* POST /signup up to the email check (lines 311-324)
SignupCheck(w, name_field, email_field, password) ==
    LET name  == Strip(name_field)
        email == Lower(Strip(email_field))
    IN  /\ pf[w].pc = "idle"
        /\ IF name = <<>> \/ email = <<>> \/ password = ""
           THEN /\ http' = Redirect("signup", "signup", <<"All fields are required.">>)
                /\ UNCHANGED pf
           ELSE IF UserIdByEmail(email) # 0
           THEN /\ http' = Redirect("signup", "login",
                                    <<"Email already registered. Please log in.">>)
                /\ UNCHANGED pf
           ELSE /\ Len(users) + Cardinality(PendingEmails \cup {email}) <= MaxUsers
                /\ MayRace(email)
                /\ pf' = [pf EXCEPT ![w] = [NoRequest EXCEPT !.pc = "commit",
                                               !.kind = "signup", !.name = name,
                                               !.email = email, !.password = password,
                                               !.email_field = email_field]]
                /\ UNCHANGED http
        /\ UNCHANGED <<careers, skills, career_skills, users, user_skills, plans,
                       plan_steps, session, resources, rec, sp, rm, faults, bk>>

\* POST /register up to the email check (lines 284-296): the fields as sent
RegisterCheck(w, name_field, email_field, password) ==
    /\ pf[w].pc = "idle"
    /\ IF UserIdByEmail(email_field) # 0
       THEN /\ http' = Redirect("register", "login",
                                <<"Email already registered. Please log in.",
                                  "Account created successfully! Please log in.",
                                  "Email already registered. Please log in.">>)
            /\ UNCHANGED pf
       ELSE /\ Len(users) + Cardinality(PendingEmails \cup {email_field}) <= MaxUsers
            /\ MayRace(email_field)
            /\ pf' = [pf EXCEPT ![w] = [NoRequest EXCEPT !.pc = "commit",
                                           !.kind = "register", !.name = name_field,
                                           !.email = email_field,
                                           !.password = password,
                                           !.email_field = email_field]]
            /\ UNCHANGED http
    /\ UNCHANGED <<careers, skills, career_skills, users, user_skills, plans,
                   plan_steps, session, resources, rec, sp, rm, faults, bk>>

\* the flash of a created account
CreatedFlash(kind) ==
    IF kind = "signup" THEN "Account created successfully. Please log in."
    ELSE "Account created successfully! Please log in."

\* db.session.add(new_user); db.session.commit() of /signup and /register, and
\* the response: the unique constraint on email rejects a row whose email is
\* stored by now, and the IntegrityError goes to handle_integrity_error
UserCommit(w) ==
    /\ pf[w].pc = "commit"
    /\ IF UserIdByEmail(pf[w].email) # 0
       THEN /\ faults' = faults + 1
            /\ http' = IntegrityResponse(pf[w].kind)
            /\ UNCHANGED users
       ELSE /\ users' = Append(users, User(pf[w].name, pf[w].email,
                                           generate_password_hash(pf[w].password)))
            /\ http' = [Redirect(pf[w].kind, "login", <<CreatedFlash(pf[w].kind)>>)
                           EXCEPT !.query = pf[w].email_field]
            /\ UNCHANGED faults
    /\ pf' = [pf EXCEPT ![w] = NoRequest]
    /\ UNCHANGED <<careers, skills, career_skills, user_skills, plans, plan_steps,
                   session, resources, rec, sp, rm, bk>>

\* POST /login
Login(email, password) ==
    LET user == UserIdByEmail(email)
    IN  /\ IF user # 0 /\ users[user].password_hash = <<>>
           THEN \* check_password_hash(None, password) raises
                /\ http' = [NoResponse EXCEPT !.kind = "login", !.status = 500]
                /\ UNCHANGED session
           ELSE IF user # 0 /\ check_password_hash(users[user].password_hash, password)
           THEN /\ session' = user
                /\ http' = Redirect("login", "profile", <<>>)
           ELSE /\ http' = Redirect("login", "login",
                                    <<"Invalid email or password. Please try again.">>)
                /\ UNCHANGED session
        /\ UNCHANGED <<careers, skills, career_skills, users, user_skills, plans,
                       plan_steps, resources, pf, rec, sp, rm, faults, bk>>

\* GET /logout
Logout ==
    /\ session' = 0
    /\ http' = Redirect("logout", "login", <<"You have been logged out.">>)
    /\ UNCHANGED <<careers, skills, career_skills, users, user_skills, plans,
                   plan_steps, resources, pf, rec, sp, rm, faults, bk>>

\* reset_db.py, run while no request is in flight: every table is dropped and
\* created again; the browser keeps its session cookie
ResetDb ==
    /\ \A w \in Workers : pf[w].pc = "idle"
    /\ sp.pc = "idle"
    /\ careers' = <<>> /\ skills' = <<>> /\ career_skills' = <<>>
    /\ users' = <<>> /\ user_skills' = <<>>
    /\ plans' = <<>> /\ plan_steps' = <<>>
    /\ resources' = <<>>
    /\ UNCHANGED <<session, http, pf, rec, sp, rm, faults, bk>>

-----------------------------------------------------------------------------
(* /profile, commit by commit *)

\* mutant: an id that is not stored yields the first user
UserGet_Any(id) == IF id \in DOMAIN users THEN id ELSE IF users # <<>> THEN 1 ELSE 0

\* User.query.get(id): the id, 0 for None
UserGet(id) == IF id \in DOMAIN users THEN id ELSE 0

\* lines 89-98 for a request that is turned away: no user_id in the session,
\* or one that is not stored, which also clears the session
ProfileDenied ==
    /\ session = 0 \/ UserGet(session) = 0
    /\ session' = 0
    /\ http' = Redirect("profile", "login", <<>>)
    /\ UNCHANGED <<careers, skills, career_skills, users, user_skills, plans,
                   plan_steps, resources, pf, rec, sp, rm, faults, bk>>

\* GET /profile of a logged-in user: the form filled with the stored values
ProfileGet ==
    /\ session # 0 /\ UserGet(session) # 0
    /\ http' = [NoResponse EXCEPT !.kind = "profile", !.status = 200,
                                  !.user_id = UserGet(session),
                                  !.body = "profile.html"]
    /\ UNCHANGED <<careers, skills, career_skills, users, user_skills, plans,
                   plan_steps, session, resources, pf, rec, sp, rm, faults, bk>>

\* POST /profile of a logged-in user up to the first commit (lines 100-113)
ProfileBegin(w, name, interests, skills_field) ==
    /\ pf[w].pc = "idle"
    /\ session # 0 /\ UserGet(session) # 0
    /\ LET u == UserGet(session)
       IN  IF Strip(name) = <<>>
           THEN /\ http' = [NoResponse EXCEPT !.kind = "profile", !.status = 400,
                                              !.body = "Name required"]
                /\ UNCHANGED <<users, pf>>
           ELSE /\ users' = [users EXCEPT ![u].name = Strip(name),
                                          ![u].interests = Strip(interests),
                                          ![u].skills_text = Strip(skills_field)]
                /\ pf' = [pf EXCEPT ![w] = [NoRequest EXCEPT !.pc = "delete",
                                               !.kind = "profile", !.user_id = u,
                                               !.entries = split_csv(Strip(skills_field))]]
                /\ UNCHANGED http
    /\ UNCHANGED <<careers, skills, career_skills, user_skills, plans, plan_steps,
                   session, resources, rec, sp, rm, faults, bk>>

\* lines 117-118: the user's UserSkill rows deleted, committed
ProfileDelete(w) ==
    /\ pf[w].pc = "delete"
    /\ user_skills' = SelectSeq(user_skills, LAMBDA r : r.user_id # pf[w].user_id)
    /\ pf' = [pf EXCEPT ![w].pc = "insert"]
    /\ UNCHANGED <<careers, skills, career_skills, users, plans, plan_steps,
                   session, resources, http, rec, sp, rm, faults, bk>>

\* lines 121-128: one pass of the loop, one commit
ProfileInsert(w) ==
    /\ pf[w].pc = "insert"
    /\ pf[w].entries # <<>>
    /\ LET s == Head(pf[w].entries)
       IN  \/ /\ user_skills' = Append(user_skills,
                                       [user_id |-> pf[w].user_id,
                                        skill_id |-> SkillIdByName(Lower(s)),
                                        name |-> s])
              /\ UNCHANGED faults
           \/ \* IntegrityError: rolled back, the entry is skipped
              /\ faults < MaxFaults
              /\ faults' = faults + 1
              /\ UNCHANGED user_skills
    /\ pf' = [pf EXCEPT ![w].entries = Tail(pf[w].entries)]
    /\ UNCHANGED <<careers, skills, career_skills, users, plans, plan_steps,
                   session, resources, http, rec, sp, rm, bk>>

\* line 130: redirect(url_for('recommend', user_id=user.id))
ProfileReturn(w) ==
    /\ pf[w].pc = "insert"
    /\ pf[w].entries = <<>>
    /\ http' = [Redirect("profile", "recommend", <<>>) EXCEPT !.user_id = pf[w].user_id]
    /\ pf' = [pf EXCEPT ![w] = NoRequest]
    /\ UNCHANGED <<careers, skills, career_skills, users, user_skills, plans,
                   plan_steps, session, resources, rec, sp, rm, faults, bk>>

-----------------------------------------------------------------------------
(* recreate_db.py *)

\* retries=6 of the two calls in backup_db
Retries == 6

\* no run of the script: pc is its position ("idle", "copy", "remove",
\* "recreate", "exit" after SystemExit, "done"), db says data.sqlite exists,
\* bak is the backup file ("none", "partial" after a copy that failed part
\* way, "complete"), attempt counts the tries of the loop the run is in, ok
\* and removed are the results of the two loops, status is the exit status
NoBackup ==
    [pc |-> "idle", db |-> TRUE, bak |-> "none", attempt |-> 0, ok |-> FALSE,
     removed |-> FALSE, status |-> 0, recreated |-> FALSE]

\* mutant: the script goes on without a backup
OnCopyFailed_GoOn == [pc |-> "remove", status |-> 0]

\* `if not ok: ... raise SystemExit(1)`
OnCopyFailed == [pc |-> "exit", status |-> 1]

\* __main__ and the head of backup_db: the backup is tried when the file exists
BackupStart ==
    /\ bk.pc = "idle"
    /\ bk' = [bk EXCEPT !.pc = IF bk.db THEN "copy" ELSE "recreate"]
    /\ UNCHANGED <<careers, skills, career_skills, users, user_skills, plans,
                   plan_steps, session, resources, http, pf, rec, sp, rm, faults>>

\* one pass of the loop of try_copy_with_retries: shutil.copy2 returns, or it
\* raises PermissionError, having written none or some of the backup file
CopyAttempt ==
    /\ bk.pc = "copy"
    /\ bk.attempt < Retries
    /\ \/ bk' = [bk EXCEPT !.pc = "remove", !.bak = "complete", !.ok = TRUE,
                            !.attempt = 0]
       \/ \E left \in {bk.bak, "partial"} :
              bk' = [bk EXCEPT !.attempt = bk.attempt + 1, !.bak = left]
    /\ UNCHANGED <<careers, skills, career_skills, users, user_skills, plans,
                   plan_steps, session, resources, http, pf, rec, sp, rm, faults>>

\* the loop ran out: try_copy_with_retries returns False
CopyFailed ==
    /\ bk.pc = "copy"
    /\ bk.attempt = Retries
    /\ bk' = [bk EXCEPT !.pc = OnCopyFailed.pc, !.status = OnCopyFailed.status]
    /\ UNCHANGED <<careers, skills, career_skills, users, user_skills, plans,
                   plan_steps, session, resources, http, pf, rec, sp, rm, faults>>

\* one pass of the loop of try_remove_with_retries: os.remove returns, or it
\* raises PermissionError
RemoveAttempt ==
    /\ bk.pc = "remove"
    /\ bk.attempt < Retries
    /\ \/ bk' = [bk EXCEPT !.pc = "recreate", !.db = FALSE, !.removed = TRUE]
       \/ bk' = [bk EXCEPT !.attempt = bk.attempt + 1]
    /\ UNCHANGED <<careers, skills, career_skills, users, user_skills, plans,
                   plan_steps, session, resources, http, pf, rec, sp, rm, faults>>

\* the loop ran out: the original is left in place, backup_db returns
RemoveFailed ==
    /\ bk.pc = "remove"
    /\ bk.attempt = Retries
    /\ bk' = [bk EXCEPT !.pc = "recreate"]
    /\ UNCHANGED <<careers, skills, career_skills, users, user_skills, plans,
                   plan_steps, session, resources, http, pf, rec, sp, rm, faults>>

\* recreate(): drop_all, create_all; the file exists afterwards, every table
\* is empty
Recreate ==
    /\ bk.pc = "recreate"
    /\ bk' = [bk EXCEPT !.pc = "done", !.db = TRUE, !.recreated = TRUE]
    /\ careers' = <<>> /\ skills' = <<>> /\ career_skills' = <<>>
    /\ users' = <<>> /\ user_skills' = <<>>
    /\ plans' = <<>> /\ plan_steps' = <<>>
    /\ resources' = <<>>
    /\ UNCHANGED <<session, http, pf, rec, sp, rm, faults>>

-----------------------------------------------------------------------------
(* The stores and the form values the model starts from and draws from *)

\* no careers at all
CatEmpty == [careers |-> <<>>, skills |-> <<>>, career_skills |-> <<>>]

\* one career, 'Software Engineer', requiring python, data-structures, algorithms
CatExample ==
    [careers |-> <<Career(t_SoftwareEngineer)>>,
     skills |-> <<t_python, t_ds, t_algo>>,
     career_skills |-> <<Req(1, 1), Req(1, 2), Req(1, 3)>>]

\* three careers of seed_db.py, with some of their skills
CatSeed ==
    [careers |-> <<Career(t_SoftwareEngineer), Career(t_DataAnalyst),
                   Career(t_DataScientist)>>,
     skills |-> <<t_python, t_java, t_sql, t_stats>>,
     career_skills |-> <<Req(1, 1), Req(1, 2), Req(2, 3), Req(2, 4), Req(2, 1),
                         Req(3, 1), Req(3, 4), Req(3, 3)>>]

\* skill names stored in upper or mixed case, and a requirement listed twice
CatMixed ==
    [careers |-> <<Career(t_Designer), Career(t_DataAnalyst)>>,
     skills |-> <<t_figma, t_SQL, t_Python>>,
     career_skills |-> <<Req(1, 1), Req(2, 2), Req(2, 3), Req(2, 2)>>]

\* more careers than the fallback takes
CatSeven ==
    [careers |-> <<Career(t_SoftwareEngineer), Career(t_DataAnalyst),
                   Career(t_DataScientist), Career(t_MLEngineer),
                   Career(t_CloudEngineer), Career(t_Designer), Career(t_Tester)>>,
     skills |-> <<t_python, t_sql, t_figma>>,
     career_skills |-> <<Req(1, 1), Req(2, 2), Req(3, 1), Req(4, 1), Req(6, 3)>>]

Catalogs == {CatEmpty, CatExample, CatSeed, CatMixed, CatSeven}

Names == {<<"A", "n", "n">>, <<" ">>}

InterestTexts ==
    {<<>>, t_programming, t_data, t_ENGINEER \o t_comma \o t_data,
     t_data \o <<",">> \o t_data}

SkillTexts ==
    {<<>>, t_python, t_Python \o t_comma \o t_SQL, t_java \o <<" ", ",", ",">>,
     t_python \o t_comma \o t_ds \o t_comma \o t_algo}

NoRoadmap ==
    [called |-> FALSE, career_title |-> <<>>, required_skills |-> <<>>,
     missing_skills |-> <<>>, phases |-> <<>>]

\* one signed-up, logged-in user over a stored catalog
InitStore ==
    /\ \E cat \in Catalogs :
          /\ careers = cat.careers
          /\ skills = cat.skills
          /\ career_skills = cat.career_skills
    /\ users = <<NewUser(<<"A", "n", "n">>)>>
    /\ user_skills = <<>>
    /\ plans = <<>>
    /\ plan_steps = <<>>
    /\ session = 1
    /\ faults = 0
    /\ resources = <<>>
    /\ http = NoResponse
    /\ pf = NoProfiles
    /\ bk = NoBackup

InitRecommend ==
    /\ InitStore
    /\ rec = NoRecommend
    /\ sp = NoSavePlan
    /\ rm = NoRoadmap

\* the missing lists a /save_plan form carries: none, one taken from the page
\* of /recommend, one the career does not require
MissingForms == {<<>>, <<t_ds, t_algo>>, <<t_java>>}

Init ==
    /\ InitStore
    /\ rec = NoRecommend
    /\ sp = NoSavePlan
    /\ rm = NoRoadmap

Next ==
    \/ \E u \in 1..(Len(users) + 1), career_title \in {<<>>, t_SoftwareEngineer, t_Tester},
          form_missing \in MissingForms :
          SavePlanBegin(u, career_title, form_missing)
    \/ SavePlanCreatePlan
    \/ SavePlanStep
    \/ SavePlanTrailing
    \/ SavePlanReturn

Spec == Init /\ [][Next]_vars

\* a direct call of build_roadmap
CallBuildRoadmap(career_title, required_skills, missing_skills) ==
    /\ rm' = [called          |-> TRUE,
              career_title    |-> career_title,
              required_skills |-> required_skills,
              missing_skills  |-> missing_skills,
              phases          |-> build_roadmap(career_title, required_skills,
                                                missing_skills)]
    /\ UNCHANGED <<careers, skills, career_skills, users, user_skills, plans,
                   plan_steps, session, resources, http, pf, rec, sp, faults, bk>>

\* skill names build_roadmap is called on: one in the table under another case
\* than its key, one not in the table
SkillPool == {t_SQL, t_java}

\* the lists over SkillPool of at most MaxLen entries
SkillLists == UNION {[1..n -> SkillPool] : n \in 0..MaxLen}

InitRoadmap ==
    /\ careers = <<>> /\ skills = <<>> /\ career_skills = <<>>
    /\ users = <<>> /\ user_skills = <<>> /\ plans = <<>> /\ plan_steps = <<>>
    /\ session = 0 /\ faults = 0
    /\ resources = <<>> /\ http = NoResponse /\ pf = NoProfiles
    /\ bk = NoBackup
    /\ rec = NoRecommend
    /\ sp = NoSavePlan
    /\ rm = NoRoadmap

NextRoadmap ==
    \E career_title \in {t_SoftwareEngineer, t_DataAnalyst, t_Tester},
       required_skills \in SkillLists, missing_skills \in SkillLists :
        CallBuildRoadmap(career_title, required_skills, missing_skills)

SpecRoadmap == InitRoadmap /\ [][NextRoadmap]_vars

NextRecommend ==
    \/ \E name \in Names, interests \in InterestTexts, skills_field \in SkillTexts :
          ProfilePost(name, interests, skills_field)
    \/ \E u \in 1..(Len(users) + 1) : Recommend(u)

SpecRecommend == InitRecommend /\ [][NextRecommend]_vars

-----------------------------------------------------------------------------
(* GET /resources over a stored catalog and stored resources *)

t_Nurse == <<"N","u","r","s","e">>
t_d_ta  == <<"d","_","t","a">>

Resource(c, title, url) == [career_id |-> c, title |-> title, url |-> url]

\* the Resource tables: empty, a few rows (career_id 0 is NULL; a url is a
\* number standing for the address), more than a page
ResourceTables ==
    {<<>>,
     <<Resource(0, "Python Official Tutorial", 100),
       Resource(1, "Career guide", 101), Resource(7, "Testing guide", 107)>>,
     [i \in 1..(ResourcePageLimit + 1) |-> Resource(0, "Resource", i)]}

\* values of ?career=: absent, blank, matching, unmatched, padded, a LIKE wildcard
CareerQueries ==
    {<<>>, <<" ">>, t_data, t_Tester, t_Nurse, <<" ">> \o t_Nurse \o <<" ">>, t_d_ta,
     <<" ">> \o t_ENGINEER}

InitResources ==
    /\ \E cat \in Catalogs :
          /\ careers = cat.careers
          /\ skills = cat.skills
          /\ career_skills = cat.career_skills
    /\ resources \in ResourceTables
    /\ users = <<>> /\ user_skills = <<>> /\ plans = <<>> /\ plan_steps = <<>>
    /\ session = 0 /\ faults = 0
    /\ http = NoResponse /\ pf = NoProfiles
    /\ rec = NoRecommend /\ sp = NoSavePlan /\ rm = NoRoadmap
    /\ bk = NoBackup

NextResources == \E arg \in CareerQueries : Resources(arg)

SpecResources == InitResources /\ [][NextResources]_vars

-----------------------------------------------------------------------------
(* seed_db.py: get_or_create_skill and main *)

\* the Skill table holds at most this many rows
MaxSkills == 4

\* mutant: a new row whether or not the name is stored
get_or_create_skill_Always(table, name) == Append(table, name)

\* Skill.query.filter_by(name=name).first() or a new row: the match is exact
get_or_create_skill(table, name) ==
    IF \E i \in DOMAIN table : table[i] = name THEN table ELSE Append(table, name)

RECURSIVE get_or_create_skills(_, _)
get_or_create_skills(table, names) ==
    IF names = <<>> THEN table
    ELSE get_or_create_skills(get_or_create_skill(table, Head(names)), Tail(names))

\* Career.query.filter_by(title=title).first() or a new row
get_or_create_career(table, title) ==
    IF \E i \in DOMAIN table : table[i].title = title THEN table
    ELSE Append(table, Career(title))

RECURSIVE get_or_create_careers(_, _)
get_or_create_careers(table, titles) ==
    IF titles = <<>> THEN table
    ELSE get_or_create_careers(get_or_create_career(table, Head(titles)), Tail(titles))

\* the id of the first row of a table that satisfies Test
FirstId(table, Test(_)) ==
    CHOOSE i \in DOMAIN table : Test(table[i]) /\ \A j \in 1..(i - 1) : ~Test(table[j])

\* CareerSkillRequirement.query.filter_by(...).first() or a new row
ensure_req(table, career, skill) ==
    IF \E i \in DOMAIN table : table[i] = Req(career, skill) THEN table
    ELSE Append(table, Req(career, skill))

\* Resource.query.filter_by(title=title).first() or a new row; Resource takes
\* neither resource_type nor provider, so the row is Resource(title, url), and
\* it has neither .skills nor .careers, so the two link helpers do nothing
add_resource_safe(table, title, url) ==
    IF \E i \in DOMAIN table : table[i].title = title THEN table
    ELSE Append(table, Resource(0, title, url))

\* SKILLS, CAREERS and RESOURCES, cut down to two skills, one career, one resource
SKILLS == <<t_python, t_sql>>
CAREERS == <<[title |-> t_DataAnalyst, reqs |-> <<t_sql, t_python>>]>>
RESOURCES ==
    <<[title |-> "SQLBolt", url |-> 102, skill_names |-> <<t_sql>>,
       career_titles |-> <<t_DataAnalyst>>]>>

\* the requirements loop of main for the reqs of one career
RECURSIVE SeedReqs(_, _, _, _)
SeedReqs(table, skill_table, career, reqs) ==
    IF reqs = <<>> THEN table
    ELSE SeedReqs(ensure_req(table, career,
                             FirstId(skill_table, LAMBDA n : n = Head(reqs))),
                  skill_table, career, Tail(reqs))

\* the stores after main(reset) has run on the stores st
SeedStores(st) ==
    LET c         == CAREERS[1]
        r         == RESOURCES[1]
        skills1   == get_or_create_skills(st.skills, SKILLS)
        careers1  == get_or_create_career(st.careers, c.title)
        skills2   == get_or_create_skills(skills1, c.reqs)
        career_id == FirstId(careers1, LAMBDA row : row.title = c.title)
    IN  [skills        |-> get_or_create_skills(skills2, r.skill_names),
         careers       |-> get_or_create_careers(careers1, r.career_titles),
         career_skills |-> SeedReqs(st.career_skills, skills2, career_id, c.reqs),
         resources     |-> add_resource_safe(st.resources, r.title, r.url)]

\* python seed_db.py [--reset]
SeedMain(reset) ==
    LET empty == [skills |-> <<>>, careers |-> <<>>, career_skills |-> <<>>,
                  resources |-> <<>>]
        here  == [skills |-> skills, careers |-> careers,
                  career_skills |-> career_skills, resources |-> resources]
        after == SeedStores(IF reset THEN empty ELSE here)
    IN  /\ Len(after.skills) <= MaxSkills
        /\ skills' = after.skills
        /\ careers' = after.careers
        /\ career_skills' = after.career_skills
        /\ resources' = after.resources
        /\ IF reset
           THEN \* db.drop_all(); db.create_all()
                /\ users' = <<>> /\ user_skills' = <<>>
                /\ plans' = <<>> /\ plan_steps' = <<>>
           ELSE UNCHANGED <<users, user_skills, plans, plan_steps>>
        /\ UNCHANGED <<session, http, pf, rec, sp, rm, faults, bk>>

\* a call of get_or_create_skill(name), committed by its caller
GetOrCreateSkill(name) ==
    /\ Len(get_or_create_skill(skills, name)) <= MaxSkills
    /\ skills' = get_or_create_skill(skills, name)
    /\ UNCHANGED <<careers, career_skills, users, user_skills, plans, plan_steps,
                   session, resources, http, pf, rec, sp, rm, faults, bk>>

\* the names get_or_create_skill is called with
SkillNames == {t_python, t_Python, t_sql, t_SQL, t_java}

NextSeed ==
    \/ \E reset \in BOOLEAN : SeedMain(reset)
    \/ \E name \in SkillNames : GetOrCreateSkill(name)

\* the tables as db.create_all() leaves them
SpecSeed == InitRoadmap /\ [][NextSeed]_vars

-----------------------------------------------------------------------------
(* Accounts, sessions and the profile page *)

t_a == <<"a","@","x">>
t_A == <<"A","@","x">>
t_Ann == <<"A", "n", "n">>

\* the email fields sent to /signup: lower case, upper case, padded, empty
SignupEmails == {t_a, t_A, <<" ">> \o t_a, <<>>}

\* the email fields sent to /register and /login
Emails == {t_a, t_A}

\* the password fields sent to /login
Passwords == {"pw", "other"}

\* the skills fields sent to POST /profile
ProfileSkills == {t_python, t_Python \o t_comma \o t_SQL}

NextProfile ==
    \/ \E w \in Workers, name \in Names, skills_field \in ProfileSkills :
          ProfileBegin(w, name, <<>>, skills_field)
    \/ \E w \in Workers : ProfileDelete(w)
    \/ \E w \in Workers : ProfileInsert(w)
    \/ \E w \in Workers : ProfileReturn(w)

\* one signed-up, logged-in user posting the profile form, two posts at a time
SpecProfile == Init /\ [][NextProfile]_vars

NextAuth ==
    \/ \E w \in Workers, email \in SignupEmails : SignupCheck(w, t_Ann, email, "pw")
    \/ \E w \in Workers, email \in Emails : RegisterCheck(w, t_Ann, email, "pw")
    \/ \E w \in Workers : UserCommit(w)
    \/ \E email \in Emails, password \in Passwords : Login(email, password)
    \/ Logout
    \/ ResetDb
    \/ ProfileDenied
    \/ ProfileGet
    \/ \E name \in Names : ProfileBegin("w1", name, <<>>, t_python)
    \/ ProfileDelete("w1")
    \/ ProfileInsert("w1")
    \/ ProfileReturn("w1")

NextBackup ==
    \/ BackupStart
    \/ CopyAttempt
    \/ CopyFailed
    \/ RemoveAttempt
    \/ RemoveFailed
    \/ Recreate

\* a stored catalog with some resources in data.sqlite, or no file at all
InitBackup ==
    /\ \E cat \in Catalogs, table \in ResourceTables :
          /\ careers = cat.careers
          /\ skills = cat.skills
          /\ career_skills = cat.career_skills
          /\ resources = table
          /\ \/ bk = NoBackup
             \/ /\ cat = CatEmpty /\ table = <<>>
                /\ bk = [NoBackup EXCEPT !.db = FALSE]
    /\ users = <<>> /\ user_skills = <<>> /\ plans = <<>> /\ plan_steps = <<>>
    /\ session = 0 /\ faults = 0
    /\ http = NoResponse /\ pf = NoProfiles
    /\ rec = NoRecommend /\ sp = NoSavePlan /\ rm = NoRoadmap

SpecBackup == InitBackup /\ [][NextBackup]_vars

\* the tables as db.create_all() leaves them, no session
SpecAuth == InitRoadmap /\ [][NextAuth]_vars

\* no request is in flight other than those of the given kinds
OnlyInFlight(kinds) ==
    /\ \A w \in Workers : pf[w].pc = "idle" \/ pf[w].kind \in kinds
    /\ sp.pc = "idle" \/ "save_plan" \in kinds

\* every handler that writes, /save_plan, /profile, /signup and /register:
\* one kind of request at a time, two signups at a time
NextWrites ==
    \/ \E career_title \in {t_SoftwareEngineer, t_Tester} :
          OnlyInFlight({"save_plan"}) /\ SavePlanBegin(1, career_title, <<t_java>>)
    \/ SavePlanCreatePlan
    \/ SavePlanStep
    \/ SavePlanTrailing
    \/ SavePlanReturn
    \/ /\ OnlyInFlight({"profile"})
       /\ ProfileBegin("w1", t_Ann, <<>>, t_Python \o t_comma \o t_SQL)
    \/ ProfileDelete("w1")
    \/ ProfileInsert("w1")
    \/ ProfileReturn("w1")
    \/ \E w \in Workers : OnlyInFlight({"signup", "register"}) /\ SignupCheck(w, t_Ann, t_a, "pw")
    \/ \E w \in Workers : OnlyInFlight({"signup", "register"}) /\ RegisterCheck(w, t_Ann, t_a, "pw")
    \/ \E w \in Workers : UserCommit(w)

\* one signed-up, logged-in user over the example catalog
InitWrites == Init /\ careers = CatExample.careers

SpecWrites == InitWrites /\ [][NextWrites]_vars

-----------------------------------------------------------------------------
(* Properties of /recommend, stated on the locals of a returned request *)

Returned == rec.status = 200

\* the user's interest list and skill names as stored, before any lower-casing
RecInterests == split_csv(rec.user.interests)
RecSkillNames ==
    LET named == {rec.user_rows[i].name : i \in DOMAIN rec.user_rows} \ {<<>>}
    IN  IF named # {} THEN named ELSE Range(split_csv(rec.user.skills_text))
RecSkillsLower == {Lower(n) : n \in RecSkillNames}

\* entries of the interest list found, case-insensitively, in the title of career c
InterestMatches(c) ==
    {k \in DOMAIN RecInterests :
        IsSubstr(Lower(RecInterests[k]), Lower(rec.catalog[c].title))}

\* distinct required skills of career c the user has, case-insensitively
SkillMatches(c) == {Lower(r) : r \in Range(rec.requirements[c])} \cap RecSkillsLower

Qualifies(c) == InterestMatches(c) # {} \/ SkillMatches(c) # {}
SomeQualifies == \E c \in DOMAIN rec.catalog : Qualifies(c)

\* C1 as stated: every returned career has score > 0 or a non-empty skill
\* overlap, whatever the catalog, the interests and the skills.
C1_Original ==
    Returned =>
        \A i \in DOMAIN rec.candidates :
            \/ rec.candidates[i].score > 0
            \/ SkillMatches(rec.candidates[i].career) # {}

\* C1 amended: when at least one career of the catalog qualifies, every returned
\* career has score > 0 or a non-empty skill overlap; when none qualifies the
\* returned careers are the fallback ones, each with score 0 and no overlap.
C1_ReturnedQualify ==
    Returned =>
        /\ SomeQualifies =>
              \A i \in DOMAIN rec.candidates :
                  \/ rec.candidates[i].score > 0
                  \/ SkillMatches(rec.candidates[i].career) # {}
        /\ ~SomeQualifies =>
              \A i \in DOMAIN rec.candidates :
                  /\ rec.candidates[i].score = 0
                  /\ SkillMatches(rec.candidates[i].career) = {}

\* some careers were kept and a career that does not qualify was left out
C1_Witness ==
    /\ Returned
    /\ rec.candidates # <<>>
    /\ SomeQualifies
    /\ \E c \in DOMAIN rec.catalog :
          /\ ~Qualifies(c)
          /\ \A i \in DOMAIN rec.candidates : rec.candidates[i].career # c

\* the positions of the required list whose skill the user lacks
Lacking(required) == {k \in DOMAIN required : Lower(required[k]) \notin RecSkillsLower}

\* C2: for every returned career the missing list holds exactly the required
\* skills whose lower-cased name is not in the user's lower-cased skill set, in
\* the order of the required list.
C2_MissingIsGap ==
    Returned =>
        \A i \in DOMAIN rec.recs :
            LET required == rec.recs[i].skills
                missing  == rec.gaps[rec.recs[i].career]
            IN  /\ Len(missing) = Cardinality(Lacking(required))
                /\ \A k \in Lacking(required) :
                       missing[Cardinality({j \in Lacking(required) : j <= k})] = required[k]

\* a skill the user typed in another case is not missing, another skill is
C2_Witness ==
    /\ Returned
    /\ \E n \in RecSkillNames : Lower(n) # n
    /\ \E i \in DOMAIN rec.recs :
          LET required == rec.recs[i].skills
              missing  == rec.gaps[rec.recs[i].career]
          IN  /\ missing # <<>>
              /\ Len(missing) < Len(required)
              /\ \E n \in RecSkillNames : Lower(n) # n /\ Lower(n) \in Range(required)

\* C3: the score of every scored career is 1.0 per entry of the interest list
\* found in the title plus 0.8 per distinct required skill the user has; for
\* interests [programming], skills [python] and 'Software Engineer' requiring
\* [python, data-structures, algorithms] it is 0.8, with data-structures and
\* algorithms missing.
C3_Example ==
    /\ rec.catalog = <<Career(t_SoftwareEngineer)>>
    /\ rec.requirements = <<(<<t_python, t_ds, t_algo>>)>>
    /\ RecInterests = <<t_programming>>
    /\ RecSkillNames = {t_python}

C3_ScoreFormula ==
    Returned =>
        /\ \A i \in DOMAIN rec.candidates :
              LET c == rec.candidates[i].career
              IN  rec.candidates[i].score =
                      Cardinality(InterestMatches(c)) * 10 + Cardinality(SkillMatches(c)) * 8
        /\ C3_Example =>
              /\ Len(rec.candidates) = 1
              /\ rec.candidates[1].score = 8
              /\ rec.gaps[t_SoftwareEngineer] = <<t_ds, t_algo>>

\* the example of the claim has been served
C3_Witness == Returned /\ C3_Example

\* C4: the returned list is in descending score order and careers of equal
\* score keep the order of the catalog query.
C4_SortedStable ==
    Returned =>
        \A i, j \in DOMAIN rec.candidates :
            i < j =>
                /\ rec.candidates[i].score >= rec.candidates[j].score
                /\ rec.candidates[i].score = rec.candidates[j].score =>
                       rec.candidates[i].career < rec.candidates[j].career

\* the sort moved a career behind two later careers that tie
C4_Witness ==
    /\ Returned
    /\ \E i, j, k \in DOMAIN rec.candidates :
          /\ i < j /\ j < k
          /\ rec.candidates[i].score = rec.candidates[j].score
          /\ rec.candidates[j].score > rec.candidates[k].score
          /\ rec.candidates[k].career < rec.candidates[i].career

\* C5: when no career qualifies the returned list is a subset of the catalog of
\* at most 5 careers, each with score 0, empty exactly when the catalog is; when
\* some career qualifies only qualifying careers are returned.
C5_Fallback ==
    Returned =>
        /\ ~SomeQualifies =>
              /\ Len(rec.candidates) <= 5
              /\ \A i \in DOMAIN rec.candidates :
                    /\ rec.candidates[i].career \in DOMAIN rec.catalog
                    /\ rec.candidates[i].score = 0
              /\ \A i, j \in DOMAIN rec.candidates :
                    i # j => rec.candidates[i].career # rec.candidates[j].career
              /\ (rec.candidates = <<>>) <=> (rec.catalog = <<>>)
        /\ SomeQualifies =>
              /\ rec.candidates # <<>>
              /\ \A i \in DOMAIN rec.candidates : Qualifies(rec.candidates[i].career)

\* the fallback was taken on a catalog of more than 5 careers
C5_Witness ==
    /\ Returned
    /\ ~SomeQualifies
    /\ Len(rec.catalog) > 5
    /\ Len(rec.candidates) = 5

-----------------------------------------------------------------------------
(* Properties of build_roadmap, stated on a call and its result *)

PhaseTitles(phases) == [i \in DOMAIN phases |-> phases[i].title]

\* the phases of the result with a given title
PhasesTitled(phases, title) == {i \in DOMAIN phases : phases[i].title = title}

\* C6: 4 phases for an empty missing list and 5 otherwise; in both cases Core
\* Practice has one step per entry of the required list.
C6_PhaseCount ==
    rm.called =>
        /\ Len(rm.phases) = (IF rm.missing_skills = <<>> THEN 4 ELSE 5)
        /\ Cardinality(PhasesTitled(rm.phases, "Core Practice")) = 1
        /\ \A p \in PhasesTitled(rm.phases, "Core Practice") :
              /\ Len(rm.phases[p].steps) = Len(rm.required_skills)
              /\ \A k \in DOMAIN rm.required_skills :
                     rm.phases[p].steps[k].s = rm.required_skills[k]

\* a call with nothing missing and two required skills
C6_Witness ==
    /\ rm.called
    /\ rm.missing_skills = <<>>
    /\ Len(rm.required_skills) >= 2
    /\ Len(rm.phases) = 4

\* the last three phases of a result
LastThree(phases) == SubSeq(phases, Len(phases) - 2, Len(phases))

\* C7: the phases come in the order Foundations (if present), Core Practice,
\* Projects, Portfolio, Apply & Iterate; the last three have three steps each,
\* the same whatever the title, the required and the missing skills.
C7_PhaseOrder ==
    /\ [](rm.called =>
            /\ PhaseTitles(rm.phases) =
                   (IF rm.missing_skills = <<>> THEN <<>> ELSE <<"Foundations">>)
                   \o <<"Core Practice", "Projects", "Portfolio", "Apply & Iterate">>
            /\ \A i \in DOMAIN LastThree(rm.phases) :
                   Len(LastThree(rm.phases)[i].steps) = 3)
    /\ [][rm.called /\ rm'.called => LastThree(rm.phases) = LastThree(rm'.phases)]_vars

\* a call with a missing skill, on another title than the smallest call
C7_Witness ==
    /\ rm.called
    /\ rm.missing_skills # <<>>
    /\ rm.required_skills # <<>>
    /\ rm.career_title = t_Tester
    /\ Len(rm.phases) = 5

\* the curated resource names a Foundations step carries
Curated(step) == Range(step.res) \ {" * ", "Pick a beginner resource"}

\* C8: for a non-empty missing list Foundations has one step per missing skill,
\* in order; a step names at most two resources of SKILL_RESOURCES under the
\* lower-cased skill, and the generic prompt exactly when the table has no entry.
C8_Foundations ==
    rm.called /\ rm.missing_skills # <<>> =>
        /\ rm.phases[1].title = "Foundations"
        /\ Len(rm.phases[1].steps) = Len(rm.missing_skills)
        /\ \A k \in DOMAIN rm.missing_skills :
              LET step == rm.phases[1].steps[k]
                  key  == Lower(rm.missing_skills[k])
              IN  /\ step.s = rm.missing_skills[k]
                  /\ Cardinality(Curated(step)) <= 2
                  /\ key \in DOMAIN SKILL_RESOURCES =>
                         /\ Curated(step) # {}
                         /\ Curated(step) \subseteq Range(SKILL_RESOURCES[key])
                         /\ "Pick a beginner resource" \notin Range(step.res)
                  /\ key \notin DOMAIN SKILL_RESOURCES =>
                         step.res = <<"Pick a beginner resource">>

\* a skill in the table under another case, then a skill not in the table
C8_Witness ==
    /\ rm.called
    /\ rm.missing_skills = <<t_SQL, t_java>>
    /\ rm.phases[1].steps[1].res = <<"SQLBolt", " * ", "Mode SQL Tutorial">>
    /\ rm.phases[1].steps[2].res = <<"Pick a beginner resource">>

-----------------------------------------------------------------------------
(* Properties of /save_plan *)

\* the PlanStep rows of plan p, in insertion order
PlanRows(p) == SelectSeq(plan_steps, LAMBDA r : r.plan_id = p)

\* the request in flight has answered success: True
Served == sp.pc = "done" /\ sp.status = 200

\* the number of steps in the phases before phase p
RECURSIVE StepsBefore(_, _)
StepsBefore(phases, p) ==
    IF p <= 1 THEN 0 ELSE StepsBefore(phases, p - 1) + Len(phases[p - 1].steps)

TotalSteps(phases) == StepsBefore(phases, Len(phases) + 1)

\* the k-th title of the roadmap flattened phase by phase, the fixed project
\* step after the last
ExpectedTitle(phases, k) ==
    IF k > TotalSteps(phases) THEN TrailingTitle
    ELSE LET p == CHOOSE q \in DOMAIN phases :
                      StepsBefore(phases, q) < k /\ k <= StepsBefore(phases, q + 1)
         IN  [phase |-> phases[p].title, step |-> phases[p].steps[k - StepsBefore(phases, p)]]

\* a is b with some entries left out
RECURSIVE IsSubseq(_, _)
IsSubseq(a, b) ==
    IF a = <<>> THEN TRUE
    ELSE IF b = <<>> THEN FALSE
    ELSE IF Head(a) = Head(b) THEN IsSubseq(Tail(a), Tail(b))
    ELSE IsSubseq(a, Tail(b))

\* C9 as stated: after a successful save the rows of the new plan are every
\* roadmap step, flattened phase by phase, then the fixed project step; the k-th
\* row has sort_order k and there are (roadmap steps + 1) rows.
C9_Original ==
    Served =>
        LET rows == PlanRows(sp.plan_id)
        IN  /\ Len(rows) = TotalSteps(sp.phases) + 1
            /\ TotalSteps(sp.phases) = Len(sp.missing) + Len(sp.required) + 9
            /\ \A k \in DOMAIN rows :
                  /\ rows[k].title = ExpectedTitle(sp.phases, k)
                  /\ rows[k].sort_order = k

\* C9 amended: after a save that answers success the rows of the new plan are,
\* in order, the flattened roadmap steps and the fixed project step without
\* those whose insert raised IntegrityError; the k-th row has sort_order k, and
\* there are (roadmap steps + 1 - failed inserts) rows, so all of them in the
\* stated order when no insert fails.
C9_RowsFollowRoadmap ==
    Served =>
        LET rows  == PlanRows(sp.plan_id)
            total == TotalSteps(sp.phases)
        IN  /\ total = Len(sp.missing) + Len(sp.required) + 9
            /\ Len(rows) = total + 1 - sp.skipped
            /\ IsSubseq([k \in DOMAIN rows |-> rows[k].title],
                        [k \in 1..(total + 1) |-> ExpectedTitle(sp.phases, k)])
            /\ \A k \in DOMAIN rows : rows[k].sort_order = k
            /\ sp.skipped = 0 =>
                   \A k \in DOMAIN rows : rows[k].title = ExpectedTitle(sp.phases, k)

\* a save of a career with required skills and a missing list went through
\* with every insert committed
C9_Witness ==
    /\ Served
    /\ sp.skipped = 0
    /\ sp.required # <<>>
    /\ Len(sp.missing) >= 2
    /\ Len(PlanRows(sp.plan_id)) = Len(sp.missing) + Len(sp.required) + 10

\* C10: in every state, between the commits of a save in progress and after a
\* failed insert included, the sort_order values of the rows of one plan are
\* strictly increasing in insertion order, hence pairwise distinct.
C10_StrictlyIncreasing ==
    \A p \in DOMAIN plans :
        LET rows == PlanRows(p)
        IN  \A i, j \in DOMAIN rows : i < j => rows[i].sort_order < rows[j].sort_order

\* a save in progress: an insert failed, a later step was committed after it
\* and more steps are to come
C10_Witness ==
    /\ sp.pc = "steps"
    /\ sp.skipped > 0
    /\ sp.queue # <<>>
    /\ LET rows == PlanRows(sp.plan_id)
       IN  /\ Len(rows) >= 2
           /\ rows[Len(rows)].title = ExpectedTitle(sp.phases, Len(rows) + 1)

-----------------------------------------------------------------------------
(* Properties of /resources *)

\* the query, trimmed, holds no LIKE wildcard and occurs in no career title,
\* compared case-insensitively
Unmatched(arg) ==
    /\ Strip(arg) # <<>>
    /\ "%" \notin Range(arg) /\ "_" \notin Range(arg)
    /\ \A c \in DOMAIN careers : ~IsSubstr(Lower(Strip(arg)), Lower(careers[c].title))

\* C11: a non-empty career query that matches no title is answered 200 with
\* an empty 'resources' list and the trimmed query as 'career': not a 404 and
\* not the default page.
C11_UnmatchedQuery ==
    http.kind = "resources" /\ Unmatched(http.query) =>
        /\ http.status = 200
        /\ http.has_career
        /\ http.career = Strip(http.query)
        /\ http.resources = {}

\* a padded query that matches nothing, over a store that has careers and
\* resources the default page would show
C11_Witness ==
    /\ http.kind = "resources"
    /\ Unmatched(http.query)
    /\ Strip(http.query) # http.query
    /\ careers # <<>>
    /\ resources # <<>>

-----------------------------------------------------------------------------
(* The skill set of a user *)

\* a /save_plan request that has committed its plan and whose form carried no
\* 'missing' list: the one path of save_plan that needs the user's skill set
NeedsSkillSet == sp.plan_id # 0 /\ sp.form_missing = <<>>

\* /recommend: the set it scored with is the lower-cased UserSkill names,
\* or, with no named row, the lower-cased entries of skills_text
C12_RecommendUses == Returned => rec.user_skills = RecSkillsLower

\* /save_plan: the request that needs the set obtains it; it does not end in
\* a server error at the read of the user's rows
C12_SavePlanUses == NeedsSkillSet => sp.status # 500

\* C12: the skill set a request uses is the lower-cased names of the user's
\* UserSkill rows when one has a name, else the lower-cased entries of the
\* free-text skills; /recommend and /save_plan both compute it this way.
C12_EffectiveSkillSet == C12_RecommendUses /\ C12_SavePlanUses

-----------------------------------------------------------------------------
(* Properties of the Skill table *)

\* C13: no two Skill rows have names that are equal when compared
\* case-insensitively.
C13_CaseInsensitiveUnique ==
    \A i, j \in DOMAIN skills : Lower(skills[i]) = Lower(skills[j]) => i = j

\* what the unique constraint and the exact lookup do keep: no name twice
SkillNamesDistinct ==
    \A i, j \in DOMAIN skills : skills[i] = skills[j] => i = j

-----------------------------------------------------------------------------
(* Properties of the User table *)

EmailStored(email) == \E i \in DOMAIN users : users[i].email = email

\* the unique constraint: no email is stored twice
EmailsDistinct == \A i, j \in DOMAIN users : users[i].email = users[j].email => i = j

\* a request whose email, as the handler compares it, is stored creates no user
NormalisedStoredCreatesNone ==
    [][\A w \in Workers :
          UserCommit(w) /\ EmailStored(pf[w].email) => users' = users]_vars

\* C14: no two User rows have the same email, and a signup or registration
\* for an email that is already stored creates no new user.
C14_UniqueEmail ==
    /\ []EmailsDistinct
    /\ [][\A w \in Workers :
             UserCommit(w) /\ EmailStored(pf[w].email_field) => users' = users]_vars

-----------------------------------------------------------------------------
(* Properties of the session and the profile page *)

SessionValid == session # 0 /\ session \in DOMAIN users

\* a step of a /profile request as it arrives, GET or POST
ProfileRequest ==
    \/ ProfileDenied
    \/ ProfileGet
    \/ \E w \in Workers, name \in Names, skills_field \in ProfileSkills :
          ProfileBegin(w, name, <<>>, skills_field)

\* a step of a POST /login that sends the stored password of a stored email
LoginSucceeds ==
    \E email \in Emails, password \in Passwords :
        /\ Login(email, password)
        /\ UserIdByEmail(email) # 0
        /\ users[UserIdByEmail(email)].password_hash = <<"hash", password>>
        /\ session' = UserIdByEmail(email)

\* C15: a /profile request reads or changes a user only when the session
\* holds the id of a stored user, and the session holds an id only from a
\* successful login on, until a logout; a request that arrives with no id or
\* a stale one is redirected to login and changes no user and no skill row.
C15_ProfileGuard ==
    [][/\ ProfileRequest /\ ~SessionValid =>
              /\ http' = Redirect("profile", "login", <<>>)
              /\ session' = 0
              /\ users' = users /\ user_skills' = user_skills /\ pf' = pf
       /\ http' # http /\ http'.kind = "profile" /\ http'.status = 200 =>
              SessionValid /\ http'.user_id = session
       /\ \A i \in DOMAIN users \cap DOMAIN users' :
              users'[i] # users[i] => SessionValid /\ i = session
       /\ \A w \in Workers :
              pf[w].pc = "idle" /\ pf'[w].kind = "profile" =>
                  SessionValid /\ pf'[w].user_id = session
       /\ user_skills' # user_skills /\ users' # <<>> =>
              \E w \in Workers :
                  /\ pf[w].kind = "profile"
                  /\ SelectSeq(user_skills', LAMBDA r : r.user_id # pf[w].user_id)
                       = SelectSeq(user_skills, LAMBDA r : r.user_id # pf[w].user_id)
       /\ session' # session /\ session' # 0 => LoginSucceeds
       /\ Logout => session' = 0
      ]_vars

\* a request without a usable id was turned away while users and skill rows
\* are stored: the response is the redirect to login, the session is empty
C15_Witness ==
    /\ http = Redirect("profile", "login", <<>>)
    /\ session = 0
    /\ users # <<>>
    /\ user_skills # <<>>

\* a request was turned away for an id that is no longer stored
StaleTurnedAway == ProfileDenied /\ session # 0

-----------------------------------------------------------------------------
(* Properties of failed logins and signups *)

\* a POST /login whose email is not stored or whose password is not the one stored
FailedLogin(email, password) ==
    /\ Login(email, password)
    /\ \/ UserIdByEmail(email) = 0
       \/ users[UserIdByEmail(email)].password_hash # <<"hash", password>>

\* a complete POST /signup whose email, stripped and lower-cased, is stored
DuplicateSignup(w, email) ==
    /\ SignupCheck(w, t_Ann, email, "pw")
    /\ Strip(email) # <<>>
    /\ EmailStored(Lower(Strip(email)))

\* the response flashes a message and redirects to the endpoint; no user is
\* created, none is about to be, and the session is as it was
TurnedBackTo(endpoint) ==
    /\ http'.status = 302
    /\ http'.redirect = endpoint
    /\ http'.flash # <<>>
    /\ users' = users
    /\ pf' = pf
    /\ session' = session

\* C16 as stated: a failed login goes back to the login form, a signup with a
\* registered email goes back to the signup form.
C16_Original ==
    [][/\ \A email \in Emails, password \in Passwords :
              FailedLogin(email, password) => TurnedBackTo("login")
       /\ \A w \in Workers, email \in SignupEmails :
              DuplicateSignup(w, email) => TurnedBackTo("signup")
      ]_vars

\* C16: a failed login and a signup with a registered email each flash a
\* message and redirect to the login form, create no user and leave the
\* session as it was.
C16_AuthFailures ==
    [][/\ \A email \in Emails, password \in Passwords :
              FailedLogin(email, password) => TurnedBackTo("login")
       /\ \A w \in Workers, email \in SignupEmails :
              DuplicateSignup(w, email) =>
                  /\ TurnedBackTo("login")
                  /\ http'.flash = <<"Email already registered. Please log in.">>
      ]_vars

\* a signup with a registered email was answered while a user is logged in
C16_Witness ==
    /\ http = Redirect("signup", "login", <<"Email already registered. Please log in.">>)
    /\ users # <<>>
    /\ session # 0

\* a login with a wrong password or an unknown email was answered
FailedLoginAnswered ==
    /\ http.kind = "login" /\ http.redirect = "login"
    /\ users # <<>>

-----------------------------------------------------------------------------
(* Properties of constraint violations *)

\* the step in which the store raised an IntegrityError
ViolationStep == faults' > faults

\* nothing of the failed transaction is stored
NothingPersisted ==
    <<careers, skills, career_skills, users, user_skills, plans, plan_steps, resources>>'
        = <<careers, skills, career_skills, users, user_skills, plans, plan_steps, resources>>

\* the request ends at this step with an error message: the text of
\* handle_integrity_error with status 500, or the JSON of save_plan with 400
ErrorAnswered ==
    \/ /\ http' # http
       /\ http'.status = 500
       /\ http'.body = "Database integrity error (likely a duplicate or missing required field). Please go back and try again."
    \/ /\ sp'.pc = "done" /\ sp.pc # "done"
       /\ sp'.status = 400

\* the request goes on without the row: a step of a plan, a skill of a profile
SkippedSilently ==
    \/ /\ sp.pc = "steps"
       /\ sp'.skipped = sp.skipped + 1
       /\ sp'.status \in {0, 200}
    \/ \E w \in Workers :
          /\ pf[w].kind = "profile" /\ pf[w].pc = "insert"
          /\ pf'[w].pc = "insert" /\ pf'[w].entries = Tail(pf[w].entries)
          /\ http' = http

\* C17 as stated: every violation is rolled back and answered with an error
\* message.
C17_Original == [][ViolationStep => NothingPersisted /\ ErrorAnswered]_vars

\* C17: every violation is caught and rolled back, so that nothing of the
\* failed write is stored; the caller gets an error message, except for a
\* step of a plan or a skill of a profile, which is skipped without a word.
C17_ViolationsHandled ==
    [][ViolationStep => NothingPersisted /\ (ErrorAnswered \/ SkippedSilently)]_vars

\* the second of two racing signups was answered by handle_integrity_error
C17_Witness ==
    /\ http.status = 500
    /\ http.kind \in {"signup", "register"}
    /\ faults > 0
    /\ \A w \in Workers : pf[w].pc = "idle"

-----------------------------------------------------------------------------
(* Properties of a plan left with some of its steps *)

IsPrefix(a, b) == Len(a) <= Len(b) /\ SubSeq(b, 1, Len(a)) = a

-----------------------------------------------------------------------------
(* Properties of /save_plan without a missing list *)

\* C19: a /save_plan for a stored user with a career and no 'missing' field
\* is answered with success, and the missing list of its roadmap is the one
\* /recommend computes: the required skills not in the user's skill set.
C19_MissingComputed ==
    sp.pc = "done" /\ NeedsSkillSet =>
        /\ sp.status = 200
        /\ sp.missing = Missing(ReqsLowerAny(sp.career_id), UserSkillSet(sp.user_id))

-----------------------------------------------------------------------------
(* Properties of the UserSkill rows of a user *)

Count(s, x) == Cardinality({i \in DOMAIN s : s[i] = x})

\* the names of the UserSkill rows of user u, in insert order
RowNames(u) ==
    MapSeq(SelectSeq(user_skills, LAMBDA r : r.user_id = u), LAMBDA r : r.name)

\* the same entries with the same multiplicity
SameBag(a, b) == \A x \in Range(a) \cup Range(b) : Count(a, x) = Count(b, x)

\* C20: whenever no profile POST is in flight (and the store has rejected no
\* insert), the names of a user's UserSkill rows are the comma-separated
\* entries of the user's skills_text, each as often as it is listed there.
C20_RowsMatchText ==
    (\A w \in Workers : pf[w].pc = "idle") /\ faults = 0 =>
        \A u \in DOMAIN users : SameBag(RowNames(u), split_csv(users[u].skills_text))

-----------------------------------------------------------------------------
(* Properties of signup followed by login *)

\* the last response is that of a /signup which created a user for the email
\* field as sent, and the user is still stored
SignedUpWith(email) ==
    /\ http.kind = "signup" /\ http.status = 302 /\ http.redirect = "login"
    /\ http.flash = <<"Account created successfully. Please log in.">>
    /\ http.query = email
    /\ EmailStored(Lower(Strip(email)))

\* C21: after a /signup with an email and a password succeeded, a /login
\* with the same email string and the same password stores that user's id in
\* the session, whatever the letter case or the padding of the email.
C21_RoundTrip ==
    [][\A email \in SignupEmails :
          SignedUpWith(email) /\ Login(email, "pw") =>
              /\ session' # 0
              /\ users[session'].email = Lower(Strip(email))
              /\ http' = Redirect("login", "profile", <<>>)
      ]_vars

\* the same for an email sent to /signup already stripped and in lower case
RoundTripNormalised ==
    [][\A email \in SignupEmails :
          SignedUpWith(email) /\ email = Lower(Strip(email)) /\ Login(email, "pw") =>
              /\ session' # 0
              /\ users[session'].email = email
      ]_vars

-----------------------------------------------------------------------------
(* Properties of recreate_db.py *)

Tables ==
    <<careers, skills, career_skills, users, user_skills, plans, plan_steps, resources>>

\* C22: the original file is removed, and its removal tried, only after the
\* copy loop returned True with the backup written; when all 6 copy attempts
\* fail the script exits with status 1, the original in place and recreate()
\* not run.
C22_BackupBeforeRemove ==
    /\ [](bk.pc = "remove" \/ bk.removed => bk.ok /\ bk.bak = "complete")
    /\ [](bk.pc = "exit" =>
             /\ bk.status = 1 /\ bk.attempt = Retries
             /\ bk.db /\ ~bk.removed /\ ~bk.recreated)
    /\ [][/\ bk.db /\ ~bk'.db => bk.pc = "remove" /\ bk.ok /\ bk.bak = "complete"
          /\ Tables' # Tables => bk.pc = "recreate" /\ (bk.ok \/ ~bk.db)
          /\ bk.pc = "exit" => bk' = bk /\ Tables' = Tables
         ]_vars

\* every copy attempt failed over a stored catalog, a part of a backup file
\* left behind
C22_Witness ==
    /\ bk.pc = "exit"
    /\ bk.bak = "partial"
    /\ careers # <<>>

-----------------------------------------------------------------------------
(* Properties of seed_db.main *)

StoredSeed ==
    [skills |-> skills, careers |-> careers, career_skills |-> career_skills,
     resources |-> resources]

\* the number of rows of a table that Test holds for
Rows(table, Test(_)) == Cardinality({i \in DOMAIN table : Test(table[i])})

\* the names and titles main seeds
SeedSkillNames ==
    {SKILLS[i] : i \in DOMAIN SKILLS}
        \cup {CAREERS[1].reqs[i] : i \in DOMAIN CAREERS[1].reqs}
        \cup {RESOURCES[1].skill_names[i] : i \in DOMAIN RESOURCES[1].skill_names}

SeedCareerTitles ==
    {CAREERS[1].title}
        \cup {RESOURCES[1].career_titles[i] : i \in DOMAIN RESOURCES[1].career_titles}

\* every row main seeds is in the store st
HasSeed(st) ==
    /\ \A n \in SeedSkillNames : Rows(st.skills, LAMBDA name : name = n) >= 1
    /\ \A t \in SeedCareerTitles : Rows(st.careers, LAMBDA row : row.title = t) >= 1
    /\ \A c \in DOMAIN st.careers, k \in DOMAIN st.skills :
          /\ st.careers[c].title = CAREERS[1].title
          /\ \E i \in DOMAIN CAREERS[1].reqs : CAREERS[1].reqs[i] = st.skills[k]
          => Rows(st.career_skills, LAMBDA row : row = Req(c, k)) >= 1
    /\ Rows(st.resources, LAMBDA row : row.title = RESOURCES[1].title) >= 1

\* every skill name, career title, (career, skill) pair and resource title of
\* the store st is held by one row
EachOnce(st) ==
    /\ \A i \in DOMAIN st.skills :
          Rows(st.skills, LAMBDA name : name = st.skills[i]) = 1
    /\ \A i \in DOMAIN st.careers :
          Rows(st.careers, LAMBDA row : row.title = st.careers[i].title) = 1
    /\ \A i \in DOMAIN st.career_skills :
          Rows(st.career_skills,
               LAMBDA row : /\ row.career_id = st.career_skills[i].career_id
                            /\ row.skill_id = st.career_skills[i].skill_id) = 1
    /\ \A i \in DOMAIN st.resources :
          Rows(st.resources, LAMBDA row : row.title = st.resources[i].title) = 1

\* C23: main(reset=False) leaves a store that holds the seed as it is, a run
\* of main leaves such a store, so a second run adds nothing to what the
\* first one leaves, and each name, title and pair is there once.
C23_SeedIdempotent ==
    LET once == SeedStores(StoredSeed)
    IN  /\ HasSeed(StoredSeed) => once = StoredSeed
        /\ HasSeed(once)
        /\ SeedStores(once) = once
        /\ EachOnce(StoredSeed)
        /\ EachOnce(once)

\* a seeded store that also holds a skill main does not seed
C23_Witness ==
    /\ HasSeed(StoredSeed)
    /\ \E i \in DOMAIN skills : skills[i] \notin SeedSkillNames
    /\ Len(career_skills) = Len(CAREERS[1].reqs)

====
